---------------------------- MODULE Spec2Model ----------------------------
(***************************************************************************)
(* The GraphRAG query engine of skills/query_graphrag.py as a state        *)
(* machine: main() with one action per statement group, and the four pure  *)
(* functions it calls (search_entities, get_related_entities,              *)
(* find_chunks_with_entities, get_subgraph) as operators.                  *)
(*                                                                         *)
(* A Python str is a sequence of one-character strings, so that lower(),   *)
(* split(), + and `in` are computed and not assumed.  A dict is a record;  *)
(* a key the dict lacks is a field the record lacks.  The `type` field of  *)
(* nodes, edges and entities is never read by the query engine and is left *)
(* out.                                                                    *)
(***************************************************************************)
EXTENDS Integers, Sequences, FiniteSets, TLC

VARIABLES
    pc,                 \* position in main(), or in a directly called function
    caller,             \* "main", or "direct" when a function is called on its own
    query,              \* sys.argv[1]
    graph_file,         \* what sys.argv[2] names: [kind, doc]
    chunks_dir,         \* what sys.argv[3] names: the directory listing, in glob order
    output_file,        \* what sys.argv[4] names: [dirname_empty, writable]
    depth_arg,          \* sys.argv[5:]: <<>> or <<n>>
    graph,              \* the loaded graph
    query_terms,        \* argument of search_entities
    matching_entities,  \* result of search_entities
    entity_ids,         \* argument of the function being called
    depth,              \* argument `depth` of get_related_entities
    related,            \* get_related_entities: the working set
    hop,                \* get_related_entities: iterations of the loop done
    trail,              \* history: the working set after each iteration
    related_ids,        \* result of get_related_entities, as the set of the list's elements
    relevant_chunks,    \* result of find_chunks_with_entities
    subgraph,           \* result of get_subgraph
    result,             \* the result dict of main()
    written,            \* content of the output file
    printed,            \* the summary printed on stdout
    error,              \* the uncaught exception, "none" while there is none
    invoked             \* history: the functions called so far

vars == <<pc, caller, query, graph_file, chunks_dir, output_file, depth_arg, graph,
          query_terms, matching_entities, entity_ids, depth, related, hop, trail,
          related_ids, relevant_chunks, subgraph, result, written, printed, error,
          invoked>>

----------------------------------------------------------------------------
(* Python values *)

\* dict.get(key, default)
Get(d, key, default) == IF key \in DOMAIN d THEN d[key] ELSE default

Range(s) == {s[i] : i \in DOMAIN s}

\* All sequences over S of length at most n.
SeqsUpTo(S, n) == UNION {[1..k -> S] : k \in 0..n}

LowerChar(c) ==
    CASE c = "A" -> "a"
      [] c = "B" -> "b"
      [] c = "C" -> "c"
      [] c = "Z" -> "z"
      [] OTHER -> c

\* str.lower()
Lower(s) == [i \in DOMAIN s |-> LowerChar(s[i])]

\* `t in s` for two str
Contains(t, s) == \E i \in 1..(Len(s) - Len(t) + 1) : SubSeq(s, i, i + Len(t) - 1) = t

IsSpace(c) == c = " "

\* str.split(): the maximal runs of non-whitespace characters, in order.
RECURSIVE SplitFrom(_, _, _)
SplitFrom(s, word, acc) ==
    IF s = <<>>
    THEN IF word = <<>> THEN acc ELSE Append(acc, word)
    ELSE IF IsSpace(Head(s))
         THEN SplitFrom(Tail(s), <<>>, IF word = <<>> THEN acc ELSE Append(acc, word))
         ELSE SplitFrom(Tail(s), Append(word, Head(s)), acc)

Split(s) == SplitFrom(s, <<>>, <<>>)

----------------------------------------------------------------------------
(* search_entities *)

\* node_text of line 22
NodeText(node) == Lower(Get(node, "id", <<>>) \o <<" ">> \o Get(node, "text", <<>>))

\* The inner loop without the break of line 26.
RECURSIVE TermLoopWithoutBreak(_, _)
TermLoopWithoutBreak(node, terms) ==
    IF terms = <<>> THEN <<>>
    ELSE (IF Contains(Head(terms), NodeText(node)) THEN <<node>> ELSE <<>>)
         \o TermLoopWithoutBreak(node, Tail(terms))

\* The inner loop of lines 23-26: what it appends to matches for one node.
RECURSIVE TermLoop(_, _)
TermLoop(node, terms) ==
    IF terms = <<>> THEN <<>>
    ELSE IF Contains(Head(terms), NodeText(node)) THEN <<node>>
         ELSE TermLoop(node, Tail(terms))

\* The outer loop of lines 21-26.
RECURSIVE NodeLoop(_, _)
NodeLoop(nodes, query_lower) ==
    IF nodes = <<>> THEN <<>>
    ELSE TermLoop(Head(nodes), query_lower) \o NodeLoop(Tail(nodes), query_lower)

\* query_lower of line 18
QueryLower(terms) == [i \in DOMAIN terms |-> Lower(terms[i])]

search_entities(g, terms) == NodeLoop(g.nodes, QueryLower(terms))

----------------------------------------------------------------------------
(* get_related_entities *)

\* set(entity_ids), line 32
SetOf(ids) == Range(ids)

\* What one edge adds to new_entities, lines 37-40.
EdgeAdds(edge, rel) ==
    (IF edge.from \in rel THEN {edge.to} ELSE {})
    \cup (IF edge.to \in rel THEN {edge.from} ELSE {})

\* An edge scan that adds to `related` as it goes, so that an addition is a
\* traversal origin for the edges after it.
RECURSIVE EdgeScanFloodFill(_, _)
EdgeScanFloodFill(edges, rel) ==
    IF edges = <<>> THEN {}
    ELSE LET add == EdgeAdds(Head(edges), rel)
         IN  add \cup EdgeScanFloodFill(Tail(edges), rel \cup add)

\* The edge scan of lines 35-40: new_entities once every edge has been looked at.
\* `related` is not written during the scan.
RECURSIVE EdgeScan(_, _)
EdgeScan(edges, rel) ==
    IF edges = <<>> THEN {}
    ELSE EdgeAdds(Head(edges), rel) \cup EdgeScan(Tail(edges), rel)

\* related = new_entities in place of line 41
UpdateReplacing(rel, new_entities) == new_entities

\* related.update(new_entities), line 41
Update(rel, new_entities) == rel \cup new_entities

\* One iteration of the loop of line 34.
HopBody(g, rel) == Update(rel, EdgeScan(g.edges, rel))

\* range(depth + 1) in place of line 34
LoopRunsOnceMore(done, n) == done < n + 1

\* range(depth) has another value to give
LoopRuns(done, n) == done < n

\* The whole function: the loop run from `done` iterations on.
RECURSIVE ExpandFrom(_, _, _, _)
ExpandFrom(g, rel, done, n) ==
    IF LoopRuns(done, n) THEN ExpandFrom(g, HopBody(g, rel), done + 1, n) ELSE rel

get_related_entities(g, ids, n) == ExpandFrom(g, SetOf(ids), 0, n)

----------------------------------------------------------------------------
(* find_chunks_with_entities *)

\* str(entity_file): the path of the i-th entry of the directory
PathOf(i) == i

\* Lines 50-60 for one file: the exception it raises, or what it appends to chunks.
EntitiesHaveIds(data) ==
    \A k \in DOMAIN Get(data, "entities", <<>>) : "id" \in DOMAIN data.entities[k]

ChunkEntityIds(data) ==
    LET es == Get(data, "entities", <<>>) IN [k \in DOMAIN es |-> es[k].id]

\* all(...) in place of the any(...) of line 54
AllIn(ids, chunk_entity_ids) == ids # {} /\ \A eid \in ids : eid \in Range(chunk_entity_ids)

\* any(eid in chunk_entity_ids for eid in entity_ids), line 54; ids is the set of
\* the elements of entity_ids
AnyIn(ids, chunk_entity_ids) == \E eid \in ids : eid \in Range(chunk_entity_ids)

ChunkRecord(data, path) ==
    [chunk_id      |-> data.chunk_id,
     entities      |-> data.entities,
     relationships |-> Get(data, "relationships", <<>>),
     file          |-> path]

FileBody(f, path, ids) ==
    IF ~f.parses THEN [error |-> "JSONDecodeError", chunks |-> <<>>]
    ELSE IF ~EntitiesHaveIds(f.data) THEN [error |-> "KeyError", chunks |-> <<>>]
    ELSE IF ~AnyIn(ids, ChunkEntityIds(f.data)) THEN [error |-> "none", chunks |-> <<>>]
    ELSE IF "chunk_id" \notin DOMAIN f.data THEN [error |-> "KeyError", chunks |-> <<>>]
    ELSE [error |-> "none", chunks |-> <<ChunkRecord(f.data, path)>>]

\* The loop of line 49 from the i-th directory entry on; glob() passes over the
\* entries whose name does not match entities_CHUNK-*.json.
RECURSIVE FileLoop(_, _, _)
FileLoop(dir, i, ids) ==
    IF i > Len(dir) THEN [error |-> "none", chunks |-> <<>>]
    ELSE IF ~dir[i].glob THEN FileLoop(dir, i + 1, ids)
    ELSE LET r == FileBody(dir[i], PathOf(i), ids)
         IN  IF r.error # "none" THEN r
             ELSE LET rest == FileLoop(dir, i + 1, ids)
                  IN  IF rest.error # "none" THEN rest
                      ELSE [error |-> "none", chunks |-> r.chunks \o rest.chunks]

find_chunks_with_entities(ids, dir) == FileLoop(dir, 1, ids)

----------------------------------------------------------------------------
(* get_subgraph *)

\* Whether lines 66-68 raise KeyError: n['id'], graph['nodes'], graph['edges'].
SubgraphRaises(g) ==
    \/ "nodes" \notin DOMAIN g
    \/ \E k \in DOMAIN g.nodes : "id" \notin DOMAIN g.nodes[k]
    \/ "edges" \notin DOMAIN g

EdgeKept(e, ids) == e.from \in ids /\ e.to \in ids

NodeKept(n, ids) == n.id \in ids

get_subgraph(g, ids) ==
    LET KeepNode(n) == NodeKept(n, ids)
        KeepEdge(e) == EdgeKept(e, ids)
    IN  [nodes |-> SelectSeq(g.nodes, KeepNode), edges |-> SelectSeq(g.edges, KeepEdge)]

----------------------------------------------------------------------------
(* main: the values it builds *)

DefaultDepth == 2
ChunkCap == 20

\* max_depth of line 77
MaxDepthOf(arg) == IF Len(arg) > 0 THEN arg[1] ELSE DefaultDepth

\* s[:] in place of s[:n]
TakeAll(s, n) == s

\* s[:n]
Take(s, n) == SubSeq(s, 1, IF Len(s) < n THEN Len(s) ELSE n)

\* A test of line 86 that never takes the no_matches branch.
IsEmptyNever(matches) == FALSE

\* `not matching_entities`, line 86
IsEmpty(matches) == matches = <<>>

NoMatchesResult(q) ==
    [query       |-> q,
     status      |-> "no_matches",
     message     |-> "No entities found matching the query",
     suggestions |-> <<"Try broader terms", "Check spelling", "Use key concepts">>]

ChunksFound(chunks) == Len(chunks)

SuccessResult(q, matches, ids, chunks, sub, max_depth) ==
    [query                  |-> q,
     status                 |-> "success",
     matching_entities      |-> matches,
     total_related_entities |-> Cardinality(ids),
     relevant_chunks        |-> Len(chunks),
     chunks                 |-> Take(chunks, ChunkCap),
     subgraph               |-> [nodes |-> Len(sub.nodes), edges |-> Len(sub.edges),
                                 data |-> sub],
     statistics             |-> [direct_matches |-> Len(matches),
                                 total_related  |-> Cardinality(ids),
                                 chunks_found   |-> ChunksFound(chunks),
                                 search_depth   |-> max_depth]]

\* The summary of lines 130-137.
Summary(q, matches, ids, chunks, out) ==
    [status           |-> "success",
     query            |-> q,
     output_file      |-> out,
     entities_found   |-> IF matches # <<>> THEN Len(matches) ELSE 0,
     related_entities |-> IF matches # <<>> THEN Cardinality(ids) ELSE 0,
     chunks_found     |-> IF matches # <<>> THEN Len(chunks) ELSE 0]

\* Values of the variables a run has not written yet.
NoGraph == [loaded |-> FALSE]
NoResult == [status |-> "unset"]
NoSubgraph == [nodes |-> <<>>, edges |-> <<>>]

Raise(exc) == /\ pc' = "crashed"
              /\ error' = exc

----------------------------------------------------------------------------
(* main, lines 72-137, and the functions it calls *)

\* Lines 73-80, the graph file opens and parses.
LoadGraph ==
    /\ pc = "main"
    /\ graph_file.kind = "ok"
    /\ depth' = MaxDepthOf(depth_arg)
    /\ graph' = graph_file.doc
    /\ invoked' = invoked \cup {"load_graph"}
    /\ pc' = "loaded"
    /\ UNCHANGED <<caller, query, graph_file, chunks_dir, output_file, depth_arg,
                   query_terms, matching_entities, entity_ids, related, hop, trail,
                   related_ids, relevant_chunks, subgraph, result, written, printed,
                   error>>

\* Lines 73-80, open() or json.load() raises.
LoadGraphRaises ==
    /\ pc = "main"
    /\ graph_file.kind # "ok"
    /\ depth' = MaxDepthOf(depth_arg)
    /\ invoked' = invoked \cup {"load_graph"}
    /\ Raise(IF graph_file.kind = "missing" THEN "FileNotFoundError" ELSE "JSONDecodeError")
    /\ UNCHANGED <<caller, query, graph_file, chunks_dir, output_file, depth_arg, graph,
                   query_terms, matching_entities, entity_ids, related, hop, trail,
                   related_ids, relevant_chunks, subgraph, result, written, printed>>

\* Line 83.
Tokenize ==
    /\ pc = "loaded"
    /\ query_terms' = Split(Lower(query))
    /\ pc' = "call_search"
    /\ UNCHANGED <<caller, query, graph_file, chunks_dir, output_file, depth_arg, graph,
                   matching_entities, entity_ids, depth, related, hop, trail,
                   related_ids, relevant_chunks, subgraph, result, written, printed,
                   error, invoked>>

\* search_entities, lines 16-28 (called at line 84).
Search ==
    /\ pc = "call_search"
    /\ "nodes" \in DOMAIN graph
    /\ matching_entities' = search_entities(graph, query_terms)
    /\ invoked' = invoked \cup {"search_entities"}
    /\ pc' = IF caller = "main" THEN "searched" ELSE "returned"
    /\ UNCHANGED <<caller, query, graph_file, chunks_dir, output_file, depth_arg, graph,
                   query_terms, entity_ids, depth, related, hop, trail, related_ids,
                   relevant_chunks, subgraph, result, written, printed, error>>

\* search_entities, line 21: graph['nodes'] raises.
SearchRaises ==
    /\ pc = "call_search"
    /\ "nodes" \notin DOMAIN graph
    /\ invoked' = invoked \cup {"search_entities"}
    /\ Raise("KeyError")
    /\ UNCHANGED <<caller, query, graph_file, chunks_dir, output_file, depth_arg, graph,
                   query_terms, matching_entities, entity_ids, depth, related, hop,
                   trail, related_ids, relevant_chunks, subgraph, result, written,
                   printed>>

\* Lines 86-92.
ShortCircuit ==
    /\ pc = "searched"
    /\ IsEmpty(matching_entities)
    /\ result' = NoMatchesResult(query)
    /\ pc' = "save"
    /\ UNCHANGED <<caller, query, graph_file, chunks_dir, output_file, depth_arg, graph,
                   query_terms, matching_entities, entity_ids, depth, related, hop,
                   trail, related_ids, relevant_chunks, subgraph, written, printed,
                   error, invoked>>

\* Line 95.
CollectIds ==
    /\ pc = "searched"
    /\ ~IsEmpty(matching_entities)
    /\ \A k \in DOMAIN matching_entities : "id" \in DOMAIN matching_entities[k]
    /\ entity_ids' = [k \in DOMAIN matching_entities |-> matching_entities[k].id]
    /\ pc' = "call_expand"
    /\ UNCHANGED <<caller, query, graph_file, chunks_dir, output_file, depth_arg, graph,
                   query_terms, matching_entities, depth, related, hop, trail,
                   related_ids, relevant_chunks, subgraph, result, written, printed,
                   error, invoked>>

\* Line 95: e['id'] raises for a matching node without an id.
CollectIdsRaises ==
    /\ pc = "searched"
    /\ ~IsEmpty(matching_entities)
    /\ \E k \in DOMAIN matching_entities : "id" \notin DOMAIN matching_entities[k]
    /\ Raise("KeyError")
    /\ UNCHANGED <<caller, query, graph_file, chunks_dir, output_file, depth_arg, graph,
                   query_terms, matching_entities, entity_ids, depth, related, hop,
                   trail, related_ids, relevant_chunks, subgraph, result, written,
                   printed, invoked>>

\* get_related_entities, line 32 (called at line 96).
CallExpand ==
    /\ pc = "call_expand"
    /\ related' = SetOf(entity_ids)
    /\ hop' = 0
    /\ trail' = <<related'>>
    /\ invoked' = invoked \cup {"get_related_entities"}
    /\ pc' = "expand"
    /\ UNCHANGED <<caller, query, graph_file, chunks_dir, output_file, depth_arg, graph,
                   query_terms, matching_entities, entity_ids, depth, related_ids,
                   relevant_chunks, subgraph, result, written, printed, error>>

\* get_related_entities, lines 34-41: one iteration of the loop.
ExpandHop ==
    /\ pc = "expand"
    /\ LoopRuns(hop, depth)
    /\ "edges" \in DOMAIN graph
    /\ related' = HopBody(graph, related)
    /\ hop' = hop + 1
    /\ trail' = Append(trail, related')
    /\ UNCHANGED <<pc, caller, query, graph_file, chunks_dir, output_file, depth_arg,
                   graph, query_terms, matching_entities, entity_ids, depth,
                   related_ids, relevant_chunks, subgraph, result, written, printed,
                   error, invoked>>

\* get_related_entities, line 36: graph['edges'] raises.
ExpandRaises ==
    /\ pc = "expand"
    /\ LoopRuns(hop, depth)
    /\ "edges" \notin DOMAIN graph
    /\ Raise("KeyError")
    /\ UNCHANGED <<caller, query, graph_file, chunks_dir, output_file, depth_arg, graph,
                   query_terms, matching_entities, entity_ids, depth, related, hop,
                   trail, related_ids, relevant_chunks, subgraph, result, written,
                   printed, invoked>>

\* get_related_entities, line 43: the loop is over.
ExpandReturn ==
    /\ pc = "expand"
    /\ ~LoopRuns(hop, depth)
    /\ related_ids' = related
    /\ pc' = IF caller = "main" THEN "locate" ELSE "returned"
    /\ UNCHANGED <<caller, query, graph_file, chunks_dir, output_file, depth_arg, graph,
                   query_terms, matching_entities, entity_ids, depth, related, hop,
                   trail, relevant_chunks, subgraph, result, written, printed, error,
                   invoked>>

\* find_chunks_with_entities, lines 45-62 (called at line 99).
Locate ==
    /\ pc = "locate"
    /\ LET r == find_chunks_with_entities(related_ids, chunks_dir)
       IN  /\ r.error = "none"
           /\ relevant_chunks' = r.chunks
    /\ invoked' = invoked \cup {"find_chunks_with_entities"}
    /\ pc' = IF caller = "main" THEN "subgraph" ELSE "returned"
    /\ UNCHANGED <<caller, query, graph_file, chunks_dir, output_file, depth_arg, graph,
                   query_terms, matching_entities, entity_ids, depth, related, hop,
                   trail, related_ids, subgraph, result, written, printed, error>>

\* find_chunks_with_entities: json.load() or a subscript raises at some file.
LocateRaises ==
    /\ pc = "locate"
    /\ LET r == find_chunks_with_entities(related_ids, chunks_dir)
       IN  /\ r.error # "none"
           /\ Raise(r.error)
    /\ invoked' = invoked \cup {"find_chunks_with_entities"}
    /\ UNCHANGED <<caller, query, graph_file, chunks_dir, output_file, depth_arg, graph,
                   query_terms, matching_entities, entity_ids, depth, related, hop,
                   trail, related_ids, relevant_chunks, subgraph, result, written,
                   printed>>

\* get_subgraph, lines 64-70 (called at line 102).
Subgraph ==
    /\ pc = "subgraph"
    /\ ~SubgraphRaises(graph)
    /\ subgraph' = get_subgraph(graph, related_ids)
    /\ invoked' = invoked \cup {"get_subgraph"}
    /\ pc' = IF caller = "main" THEN "assemble" ELSE "returned"
    /\ UNCHANGED <<caller, query, graph_file, chunks_dir, output_file, depth_arg, graph,
                   query_terms, matching_entities, entity_ids, depth, related, hop,
                   trail, related_ids, relevant_chunks, result, written, printed,
                   error>>

\* get_subgraph, lines 66-68: a subscript raises.
SubgraphFails ==
    /\ pc = "subgraph"
    /\ SubgraphRaises(graph)
    /\ invoked' = invoked \cup {"get_subgraph"}
    /\ Raise("KeyError")
    /\ UNCHANGED <<caller, query, graph_file, chunks_dir, output_file, depth_arg, graph,
                   query_terms, matching_entities, entity_ids, depth, related, hop,
                   trail, related_ids, relevant_chunks, subgraph, result, written,
                   printed>>

\* Lines 104-122.
Assemble ==
    /\ pc = "assemble"
    /\ result' = SuccessResult(query, matching_entities, related_ids, relevant_chunks,
                               subgraph, depth)
    /\ pc' = "save"
    /\ UNCHANGED <<caller, query, graph_file, chunks_dir, output_file, depth_arg, graph,
                   query_terms, matching_entities, entity_ids, depth, related, hop,
                   trail, related_ids, relevant_chunks, subgraph, written, printed,
                   error, invoked>>

\* Lines 125-137.
Save ==
    /\ pc = "save"
    /\ ~output_file.dirname_empty
    /\ output_file.writable
    /\ written' = result
    /\ printed' = Summary(query, matching_entities, related_ids, relevant_chunks,
                          output_file)
    /\ pc' = "done"
    /\ UNCHANGED <<caller, query, graph_file, chunks_dir, output_file, depth_arg, graph,
                   query_terms, matching_entities, entity_ids, depth, related, hop,
                   trail, related_ids, relevant_chunks, subgraph, result, error,
                   invoked>>

\* Lines 125-126: os.makedirs('') raises for an output path without a directory
\* part, open() raises for a destination that cannot be written.
SaveRaises ==
    /\ pc = "save"
    /\ output_file.dirname_empty \/ ~output_file.writable
    /\ Raise(IF output_file.dirname_empty THEN "FileNotFoundError" ELSE "PermissionError")
    /\ UNCHANGED <<caller, query, graph_file, chunks_dir, output_file, depth_arg, graph,
                   query_terms, matching_entities, entity_ids, depth, related, hop,
                   trail, related_ids, relevant_chunks, subgraph, result, written,
                   printed, invoked>>

----------------------------------------------------------------------------
(* Inputs *)

MaxEdges == 2       \* edges of a graph
MaxArgDepth == 1    \* largest hop budget given on the command line
MaxBigFiles == 27   \* files of the largest chunk directory
MaxHops == 3        \* largest depth of a direct call of get_related_entities
MaxSeeds == 2       \* length of entity_ids in a direct call
MaxFiles == 2       \* directory entries in a direct call of find_chunks_with_entities
MaxNodes == 2       \* nodes in a direct call of search_entities
MaxTerms == 2       \* query terms in a direct call of search_entities

IdA == <<"A">>
IdB == <<"B">>
IdC == <<"C">>
Ids == {IdA, IdB, IdC}

Edge(u, v) == [from |-> u, to |-> v]

\* The graph files of a run of main: three nodes that the queries tell apart, a
\* node without an id, edges whose ends need not be nodes of the graph, and
\* documents without the nodes or the edges field.
NodeA == [id |-> IdA, text |-> <<"x">>]
NodeB == [id |-> IdB, text |-> <<"y">>]
NodeC == [id |-> IdC, text |-> <<"y">>]
NodeWithoutId == [text |-> <<"y">>]
NodeLists == {<<>>, <<NodeA, NodeB, NodeC>>, <<NodeA, NodeB>>, <<NodeA, NodeWithoutId>>}
MainEdges == {Edge(IdA, IdB), Edge(IdC, IdB), Edge(IdC, IdA)}
EdgeLists == SeqsUpTo(MainEdges, MaxEdges)
GraphDocs ==
    {[nodes |-> n, edges |-> e] : n \in NodeLists, e \in EdgeLists}
    \cup {[nodes |-> n] : n \in NodeLists}
    \cup {[edges |-> e] : e \in EdgeLists}
    \cup {<<>>}
GraphFiles ==
    {[kind |-> "missing"], [kind |-> "invalid"]} \cup {[kind |-> "ok", doc |-> d] : d \in GraphDocs}

\* "", " ", "z", "A", "y" and " A z"
Queries == {<<>>, <<" ">>, <<"z">>, <<"A">>, <<"y">>, <<" ", "A", " ", "z">>}

DepthArgs == {<<>>} \cup {<<d>> : d \in 0..MaxArgDepth}

\* The files of a chunk directory.
EntityA == [id |-> IdA]
EntityB == [id |-> IdB]
EntityC == [id |-> IdC]
FileA(c) == [glob |-> TRUE, parses |-> TRUE,
             data |-> [chunk_id |-> c, entities |-> <<EntityA>>]]
FileBC(c) == [glob |-> TRUE, parses |-> TRUE,
              data |-> [chunk_id |-> c, entities |-> <<EntityB, EntityC>>,
                        relationships |-> <<Edge(IdB, IdC)>>]]
FileUnparsable == [glob |-> TRUE, parses |-> FALSE, data |-> <<>>]
FileWithoutEntities == [glob |-> TRUE, parses |-> TRUE, data |-> [chunk_id |-> 7]]
FileWithoutChunkId == [glob |-> TRUE, parses |-> TRUE, data |-> [entities |-> <<EntityA>>]]
FileWithoutEntityId == [glob |-> TRUE, parses |-> TRUE,
                        data |-> [chunk_id |-> 8, entities |-> <<[text |-> <<"x">>]>>]]
FileOtherName == [glob |-> FALSE, parses |-> TRUE,
                  data |-> [chunk_id |-> 9, entities |-> <<EntityA>>]]

\* n files, every fifth about B and C and the others about A.
BigDir(n) == [i \in 1..n |-> IF i % 5 = 0 THEN FileBC(i) ELSE FileA(i)]

ChunkDirs ==
    {<<>>,
     <<FileA(1), FileBC(2)>>,
     <<FileA(1), FileUnparsable, FileBC(3)>>,
     <<FileWithoutEntities, FileOtherName, FileBC(3)>>,
     <<FileWithoutChunkId>>,
     <<FileWithoutEntityId>>}
    \cup {BigDir(n) : n \in (MaxBigFiles - 2)..MaxBigFiles}

OutputFiles ==
    {[dirname_empty |-> FALSE, writable |-> TRUE],
     [dirname_empty |-> TRUE, writable |-> TRUE],
     [dirname_empty |-> FALSE, writable |-> FALSE]}

\* What no statement has written yet.
Unwritten ==
    /\ graph = NoGraph
    /\ query_terms = <<>>
    /\ matching_entities = <<>>
    /\ entity_ids = <<>>
    /\ depth = 0
    /\ related = {}
    /\ hop = 0
    /\ trail = <<>>
    /\ related_ids = {}
    /\ relevant_chunks = <<>>
    /\ subgraph = NoSubgraph
    /\ result = NoResult
    /\ written = NoResult
    /\ printed = NoResult
    /\ error = "none"
    /\ invoked = {}

\* A run of main().
Init ==
    /\ pc = "main"
    /\ caller = "main"
    /\ query \in Queries
    /\ graph_file \in GraphFiles
    /\ chunks_dir \in ChunkDirs
    /\ output_file \in OutputFiles
    /\ depth_arg \in DepthArgs
    /\ Unwritten

Next ==
    \/ LoadGraph \/ LoadGraphRaises
    \/ Tokenize
    \/ Search \/ SearchRaises
    \/ ShortCircuit
    \/ CollectIds \/ CollectIdsRaises
    \/ CallExpand \/ ExpandHop \/ ExpandRaises \/ ExpandReturn
    \/ Locate \/ LocateRaises
    \/ Subgraph \/ SubgraphFails
    \/ Assemble
    \/ Save \/ SaveRaises

Spec == Init /\ [][Next]_vars

----------------------------------------------------------------------------
(* The functions called on their own, with arguments main() need not give. *)

\* What main() reads from the command line, for a call that is not main's.
NoCommandLine ==
    /\ caller = "direct"
    /\ query = <<>>
    /\ graph_file = [kind |-> "none"]
    /\ output_file = [dirname_empty |-> FALSE, writable |-> TRUE]
    /\ depth_arg = <<>>
    /\ result = NoResult
    /\ written = NoResult
    /\ printed = NoResult
    /\ error = "none"
    /\ invoked = {}

\* get_related_entities(graph, entity_ids, depth)
ExpandEdges == {e \in {Edge(u, v) : u \in Ids, v \in Ids} : e.from # e.to \/ e.from = IdA}
ExpandGraphs ==
    {[nodes |-> <<>>, edges |-> e] : e \in SeqsUpTo(ExpandEdges, MaxEdges)}
    \cup {[nodes |-> <<>>]}

InitExpand ==
    /\ NoCommandLine
    /\ pc = "call_expand"
    /\ graph \in ExpandGraphs
    /\ entity_ids \in SeqsUpTo(Ids, MaxSeeds)
    /\ depth \in 0..MaxHops
    /\ chunks_dir = <<>>
    /\ query_terms = <<>>
    /\ matching_entities = <<>>
    /\ related = {}
    /\ hop = 0
    /\ trail = <<>>
    /\ related_ids = {}
    /\ relevant_chunks = <<>>
    /\ subgraph = NoSubgraph

NextExpand == CallExpand \/ ExpandHop \/ ExpandRaises \/ ExpandReturn

\* A call that has started runs on: nothing in get_related_entities waits.
SpecExpand == InitExpand /\ [][NextExpand]_vars /\ WF_vars(NextExpand)

\* search_entities(graph, query_terms)
SearchNodes ==
    {[id |-> <<"a">>, text |-> <<"b">>],
     [id |-> <<"B">>, text |-> <<"a">>],
     [id |-> <<"a", "b">>],
     [text |-> <<"B">>],
     [id |-> <<>>, text |-> <<>>]}
SearchTerms == {<<"a", "b">>, <<"b">>, <<"B">>, <<"a", " ", "b">>, <<>>, <<"z">>}
SearchGraphs ==
    {[nodes |-> n, edges |-> <<>>] : n \in SeqsUpTo(SearchNodes, MaxNodes)}
    \cup {[edges |-> <<>>]}

InitSearch ==
    /\ NoCommandLine
    /\ pc = "call_search"
    /\ graph \in SearchGraphs
    /\ query_terms \in SeqsUpTo(SearchTerms, MaxTerms)
    /\ chunks_dir = <<>>
    /\ matching_entities = <<>>
    /\ entity_ids = <<>>
    /\ depth = 0
    /\ related = {}
    /\ hop = 0
    /\ trail = <<>>
    /\ related_ids = {}
    /\ relevant_chunks = <<>>
    /\ subgraph = NoSubgraph

NextSearch == Search \/ SearchRaises

SpecSearch == InitSearch /\ [][NextSearch]_vars

\* find_chunks_with_entities(entity_ids, graph_chunks_dir)
Files ==
    {FileA(1), FileBC(2), FileUnparsable, FileWithoutEntities, FileWithoutChunkId,
     FileWithoutEntityId, FileOtherName}

InitLocate ==
    /\ NoCommandLine
    /\ pc = "locate"
    /\ related_ids \in SUBSET Ids
    /\ chunks_dir \in SeqsUpTo(Files, MaxFiles)
    /\ graph \in {[nodes |-> <<NodeA, NodeB>>, edges |-> <<Edge(IdA, IdB)>>]}
    /\ query_terms = <<>>
    /\ matching_entities = <<>>
    /\ entity_ids = <<>>
    /\ depth = 0
    /\ related = {}
    /\ hop = 0
    /\ trail = <<>>
    /\ relevant_chunks = <<>>
    /\ subgraph = NoSubgraph

NextLocate == Locate \/ LocateRaises

SpecLocate == InitLocate /\ [][NextLocate]_vars

----------------------------------------------------------------------------
(* Properties of get_related_entities, under SpecExpand *)

Seeds == SetOf(entity_ids)
EdgesOf(g) == Get(g, "edges", <<>>)

Adjacent(edges, u, v) ==
    \E k \in DOMAIN edges : \/ edges[k].from = u /\ edges[k].to = v
                            \/ edges[k].from = v /\ edges[k].to = u

EdgeIds(edges) == {edges[k].from : k \in DOMAIN edges} \cup {edges[k].to : k \in DOMAIN edges}

\* v is at most h undirected edge steps away from a member of S.
RECURSIVE Within(_, _, _, _)
Within(edges, S, v, h) ==
    \/ v \in S
    \/ /\ h > 0
       /\ \E u \in EdgeIds(edges) : Adjacent(edges, u, v) /\ Within(edges, S, u, h - 1)

ReachWithin(edges, S, h) == {v \in S \cup EdgeIds(edges) : Within(edges, S, v, h)}

\* The union of S with the connected components that hold a member of S: the
\* least set that holds S and both ends of every edge it holds one end of.
Closure(edges, S) ==
    LET U == S \cup EdgeIds(edges)
        Closed(X) == \A u \in X : \A v \in U : Adjacent(edges, u, v) => v \in X
    IN  {v \in U : \A X \in SUBSET U : (S \subseteq X /\ Closed(X)) => v \in X}

ExpandRunning == pc \in {"expand", "returned"}

ChainAB_BC == <<Edge(IdA, IdB), Edge(IdB, IdC)>>
ChainCB_BA == <<Edge(IdC, IdB), Edge(IdB, IdA)>>

\* C1: after k iterations the working set is exactly the set of identifiers at most
\* k undirected edge steps from a seed, so the call returns the identifiers at most
\* `depth` steps away: the seeds themselves for depth 0, {A, B} for depth 1 and
\* {A, B, C} for depth 2 on the chain A-B-C seeded with A, whatever the order and
\* direction in which the chain's edges are stored.
C1_ExpandIsBoundedReach ==
    /\ ExpandRunning =>
          /\ related = ReachWithin(EdgesOf(graph), Seeds, hop)
          /\ \A k \in DOMAIN trail : trail[k] = ReachWithin(EdgesOf(graph), Seeds, k - 1)
    /\ pc = "returned" =>
          /\ related_ids = ReachWithin(EdgesOf(graph), Seeds, depth)
          /\ depth = 0 => related_ids = Seeds
          /\ (EdgesOf(graph) \in {ChainAB_BC, ChainCB_BA} /\ Seeds = {IdA}) =>
                /\ depth = 1 => related_ids = {IdA, IdB}
                /\ depth = 2 => related_ids = {IdA, IdB, IdC}

\* The chain stored so that a flood fill would cross it in one scan, expanded by one hop.
C1_Witness ==
    /\ pc = "returned"
    /\ EdgesOf(graph) = ChainAB_BC
    /\ entity_ids = <<IdA>>
    /\ depth = 1
    /\ related_ids = {IdA, IdB}

\* C2: the working set holds every seed after every iteration and never shrinks
\* from one iteration to the next, so the result for any hop budget holds the seeds
\* and is held by the result for the next larger budget.
C2_WorkingSetOnlyGrows ==
    /\ ExpandRunning =>
          /\ Seeds \subseteq related
          /\ \A k \in DOMAIN trail :
                /\ Seeds \subseteq trail[k]
                /\ k > 1 => trail[k - 1] \subseteq trail[k]
    /\ pc = "returned" =>
          /\ Seeds \subseteq related_ids
          /\ "edges" \in DOMAIN graph =>
                /\ related_ids = get_related_entities(graph, entity_ids, depth)
                /\ related_ids \subseteq get_related_entities(graph, entity_ids, depth + 1)

\* A run of two iterations or more in which the set grew twice.
C2_Witness ==
    /\ pc = "returned"
    /\ Len(trail) >= 3
    /\ trail[1] # trail[2]
    /\ trail[2] # trail[3]
    /\ Seeds # related_ids

C10_Counts ==
    /\ hop >= 0
    /\ ExpandRunning => (hop <= depth /\ Len(trail) = hop + 1)
    /\ pc = "returned" => hop = depth

C10_Stable ==
    ExpandRunning =>
        \A k \in DOMAIN trail : \A j \in DOMAIN trail :
            (k < j /\ trail[k] = trail[k + 1]) => trail[j] = trail[k]

C10_Converged ==
    (ExpandRunning /\ hop >= Cardinality(EdgeIds(EdgesOf(graph)))) =>
        related = Closure(EdgesOf(graph), Seeds)

\* C10: a call on a graph that has edges returns, after exactly `depth` edge scans;
\* once two successive iterations leave the same working set every later one does;
\* and from as many iterations on as there are distinct identifiers in the edges
\* the working set is the seeds together with their connected components.
C10_FixedScansThenStable ==
    /\ [](C10_Counts /\ C10_Stable /\ C10_Converged)
    /\ [][pc = "expand" => (hop' = hop + 1 \/ pc' # "expand")]_vars
    /\ []("edges" \in DOMAIN graph => <>(pc = "returned"))

\* Three scans of a graph whose closure one scan reaches: the last two change nothing.
C10_Witness ==
    /\ pc = "returned"
    /\ depth = 3
    /\ hop = 3
    /\ trail[1] # trail[2]
    /\ trail[2] = trail[3]
    /\ trail[3] = trail[4]

----------------------------------------------------------------------------
(* Properties of search_entities, under SpecSearch *)

IdOf(n) == IF "id" \in DOMAIN n THEN n.id ELSE <<>>
TextOf(n) == IF "text" \in DOMAIN n THEN n.text ELSE <<>>

\* Some lower-cased term of `terms` occurs in the lower-cased `haystack`.
SomeTermIn(terms, haystack) ==
    \E k \in DOMAIN terms : Contains(Lower(terms[k]), Lower(haystack))

\* The nodes of `nodes` that satisfy Test, once each, in storage order.
NodesWhere(nodes, Test(_)) ==
    LET F[i \in 0..Len(nodes)] ==
            IF i = 0 THEN <<>>
            ELSE IF Test(nodes[i]) THEN Append(F[i - 1], nodes[i]) ELSE F[i - 1]
    IN  F[Len(nodes)]

\* C4 as claimed: search_entities returns, once each and in storage order, exactly
\* the nodes for which some lower-cased term occurs in the lower-cased concatenation
\* of the node's id and text.
C4_MatchesIdTextConcatenation ==
    pc = "returned" =>
        LET Test(n) == SomeTermIn(query_terms, IdOf(n) \o TextOf(n))
        IN  matching_entities = NodesWhere(graph.nodes, Test)

\* C4 as amended: search_entities returns, once each and in storage order, exactly
\* the nodes for which some lower-cased term occurs in the lower-cased string made
\* of the node's id, one space and the node's text (a missing id or text counting
\* as the empty string).
C4_MatchesIdSpaceText ==
    pc = "returned" =>
        LET Test(n) == SomeTermIn(query_terms, IdOf(n) \o <<" ">> \o TextOf(n))
        IN  matching_entities = NodesWhere(graph.nodes, Test)

\* Two nodes and two terms: the first node matches both terms (an upper-case term
\* against lower-case text included) and is returned once, the second matches none.
C4_Witness ==
    /\ pc = "returned"
    /\ graph.nodes = <<[id |-> <<"a">>, text |-> <<"b">>], [id |-> <<>>, text |-> <<>>]>>
    /\ query_terms = <<<<"B">>, <<"a", " ", "b">>>>
    /\ matching_entities = <<[id |-> <<"a">>, text |-> <<"b">>]>>

----------------------------------------------------------------------------
(* Properties of find_chunks_with_entities, under SpecLocate *)

\* The directory entries glob() yields.
Listed(dir) == {i \in DOMAIN dir : dir[i].glob}

EntityIdsOf(f) ==
    IF "entities" \in DOMAIN f.data
    THEN {f.data.entities[k].id : k \in DOMAIN f.data.entities}
    ELSE {}

\* The i-th entry of `dir` is listed, parses and names an entity of E.
IsAbout(E, dir, i) == i \in Listed(dir) /\ dir[i].parses /\ EntityIdsOf(dir[i]) \cap E # {}

\* The records of the listed files of `dir` that name an entity of E, each with the
\* path of its file, in listing order.
ChunksAbout(E, dir) ==
    LET Hit(i) == IsAbout(E, dir, i)
        F[i \in 0..Len(dir)] ==
            IF i = 0 THEN <<>>
            ELSE IF Hit(i)
                 THEN Append(F[i - 1],
                             [chunk_id      |-> dir[i].data.chunk_id,
                              entities      |-> dir[i].data.entities,
                              relationships |-> IF "relationships" \in DOMAIN dir[i].data
                                                THEN dir[i].data.relationships ELSE <<>>,
                              file          |-> i])
                 ELSE F[i - 1]
    IN  F[Len(dir)]

\* find_chunks_with_entities has returned: then every file it was to report had a
\* chunk_id, and it reports the files about the given ids.
C8_Returned ==
    pc = "returned" =>
        /\ \A i \in DOMAIN chunks_dir :
              IsAbout(related_ids, chunks_dir, i) => "chunk_id" \in DOMAIN chunks_dir[i].data
        /\ relevant_chunks = ChunksAbout(related_ids, chunks_dir)

\* C8: what find_chunks_with_entities returns is, in listing order and once each,
\* the record of every listed file whose entity ids meet the given ids, with the
\* file's path added; and no step changes the directory's content or the graph.
C8_LocateFiltersByIntersection ==
    /\ []C8_Returned
    /\ [][chunks_dir' = chunks_dir /\ graph' = graph]_vars

\* Two files, the ids meet the second one's only.
C8_Witness ==
    /\ pc = "returned"
    /\ related_ids = {IdB}
    /\ chunks_dir = <<FileA(1), FileBC(2)>>
    /\ Len(relevant_chunks) = 1
    /\ relevant_chunks[1].file = 2

----------------------------------------------------------------------------
(* Properties of main(), under Spec *)

Expander == "get_related_entities"
Locator == "find_chunks_with_entities"
Builder == "get_subgraph"

\* search_entities was called and returned (it raises only for a graph without nodes).
SearchReturned == "search_entities" \in invoked /\ "nodes" \in DOMAIN graph

\* get_subgraph was called and returned.
SubgraphReturned == Builder \in invoked /\ ~SubgraphRaises(graph)

NodeIds(g) == {g.nodes[k].id : k \in DOMAIN g.nodes}

\* The elements of s that satisfy Test, in order.
Where(s, Test(_)) ==
    LET F[i \in 0..Len(s)] ==
            IF i = 0 THEN <<>>
            ELSE IF Test(s[i]) THEN Append(F[i - 1], s[i]) ELSE F[i - 1]
    IN  F[Len(s)]

\* C3 as claimed: the subgraph's nodes are the graph's nodes whose id is among the
\* given ids, and its edges are the graph's edges whose two ends are both among
\* the given ids and both ids of nodes of the graph.
C3_InducedEdgesJoinNodes ==
    SubgraphReturned =>
        LET InE(n) == n.id \in related_ids
            Joins(e) == /\ e.from \in related_ids \cap NodeIds(graph)
                        /\ e.to \in related_ids \cap NodeIds(graph)
        IN  /\ subgraph.nodes = Where(graph.nodes, InE)
            /\ subgraph.edges = Where(graph.edges, Joins)

\* C5: once the matcher has returned no node (as it does whenever the query has no
\* term) the run calls neither the expander nor the locator nor the builder, builds
\* the no_matches result, always has a next step until it has ended, and can only
\* end by writing that result or by failing to write the output; and a success result exists only when the matcher returned a node and
\* the expander, the locator and the builder have all been called.
C5_NoMatchShortCircuits ==
    /\ (SearchReturned /\ Split(Lower(query)) = <<>>) => matching_entities = <<>>
    /\ (SearchReturned /\ matching_entities = <<>>) =>
          /\ invoked \cap {Expander, Locator, Builder} = {}
          /\ pc \in {"searched", "save", "done", "crashed"}
          /\ pc \in {"save", "done"} => result.status = "no_matches"
          /\ pc = "done" => written.status = "no_matches"
          /\ pc = "crashed" => (result.status = "no_matches"
                                /\ error \in {"FileNotFoundError", "PermissionError"})
          /\ pc \notin {"done", "crashed"} => ENABLED (ShortCircuit \/ Save \/ SaveRaises)
    /\ (result.status = "success" \/ written.status = "success") =>
          /\ matching_entities # <<>>
          /\ {Expander, Locator, Builder} \subseteq invoked
    /\ (SearchReturned /\ matching_entities # <<>>) =>
          /\ result.status # "no_matches"
          /\ pc = "done" => written.status = "success"

\* A query of whitespace only, on a graph with nodes and beside a chunk directory
\* with files, has ended with the no_matches result written.
C5_Witness ==
    /\ pc = "done"
    /\ query # <<>>
    /\ Split(Lower(query)) = <<>>
    /\ "nodes" \in DOMAIN graph
    /\ graph.nodes # <<>>
    /\ chunks_dir # <<>>
    /\ written.status = "no_matches"
    /\ invoked = {"load_graph", "search_entities"}

\* The graph document lacks the nodes or the edges field.
SchemaMismatch ==
    /\ graph_file.kind = "ok"
    /\ "nodes" \notin DOMAIN graph_file.doc \/ "edges" \notin DOMAIN graph_file.doc

\* C6 as claimed: a graph document without the nodes or the edges field makes the run
\* fail in load_graph: the matcher is never called, and neither a no_matches nor a
\* success result is built or written.
C6_SchemaMismatchFailsAtLoad ==
    SchemaMismatch =>
        /\ pc \in {"main", "crashed"}
        /\ invoked \subseteq {"load_graph"}
        /\ result = NoResult
        /\ written = NoResult

\* A listed file of the chunk directory does not parse.
HasMalformedFile == \E i \in Listed(chunks_dir) : ~chunks_dir[i].parses

\* C7 as claimed: with a malformed file in the chunk directory (and a graph that has
\* its nodes and edges) the locator, once called, raises nothing and returns the records of the well-formed files whose
\* entity ids meet the related ids, and a run that has ended has written a success
\* result.
C7_MalformedFileSkipped ==
    (HasMalformedFile /\ ~SchemaMismatch /\ Locator \in invoked) =>
        /\ ~(pc = "crashed" /\ error = "JSONDecodeError")
        /\ relevant_chunks = ChunksAbout(related_ids, chunks_dir)
        /\ pc = "done" => written.status = "success"

\* C9: a success result carries the first min(20, n) of the locator's n records in
\* the locator's order, reports n both as relevant_chunks and as
\* statistics.chunks_found, reports the same number of related entities in both
\* places, and reports the number of matching entities as direct_matches.
C9_ChunksCappedCountsNot ==
    result.status = "success" =>
        LET n == Len(relevant_chunks)
            m == IF n < 20 THEN n ELSE 20
        IN  /\ result.chunks = [i \in 1..m |-> relevant_chunks[i]]
            /\ result.relevant_chunks = n
            /\ result.statistics.chunks_found = n
            /\ result.total_related_entities = result.statistics.total_related
            /\ result.total_related_entities = Cardinality(related_ids)
            /\ result.statistics.direct_matches = Len(matching_entities)
            /\ result.matching_entities = matching_entities

\* The locator returned more than 20 records, not all of the directory's files, and
\* the written result carries 20 of them.
C9_Witness ==
    /\ pc = "done"
    /\ written.status = "success"
    /\ Len(relevant_chunks) > 20
    /\ Len(relevant_chunks) < Len(chunks_dir)
    /\ Len(written.chunks) = 20
    /\ written.relevant_chunks = Len(relevant_chunks)

============================================================================
